---- MODULE Spec2Model ----
(***************************************************************************)
(* Real-Time-Drawing-Canvas: the room registry (server/rooms.js), the      *)
(* socket handlers and the DrawingState operation log (server), and the    *)
(* client replica kept by main.js / websocket.js.                          *)
(*                                                                         *)
(* Spec     the whole system: connections, rooms, the per-room log, the    *)
(*          FIFO channels of socket.io and every client's local history.   *)
(* SpecServer  the server alone, fed any event a connected socket can send. *)
(* SpecTimed   the server with the passing of time: joins, strokes, undos, *)
(*          disconnections and the clean-up timers of removeUser.          *)
(* SpecRooms   one RoomManager object: sockets join one room one after the *)
(*          other and leave in any order.                                  *)
(* SpecLog  one DrawingState object driven by arbitrary calls, started     *)
(*          fresh or close to maxHistorySize.                              *)
(***************************************************************************)
EXTENDS Integers, Sequences, FiniteSets, TLC

(***************************************************************************)
(* Bounds of the model                                                     *)
(***************************************************************************)
MaxLogCalls == 4
MaxClock == 4
MaxActs == 3
MaxSockets == 13
MaxLeaves == 2

Conns == {"A", "B"}
RoomIds == {"default", "r1"}

(***************************************************************************)
(* Program constants                                                       *)
(***************************************************************************)
maxHistorySize == 1000

\* the delay of the clean-up timer, 5 * 60 * 1000 ms, in minutes; time is
\* counted in minutes
cleanupDelay == 5

\* null / undefined of the JavaScript code, as an option value
None == <<>>
Some(x) == <<x>>

(***************************************************************************)
(* DrawingState (server/drawing-state.js)                                  *)
(* A DrawingState is [operations, currentIndex]; currentIndex is the       *)
(* 0-based JavaScript index, operations[i] of the code is operations[i+1]. *)
(***************************************************************************)
NewDrawingState == [operations |-> <<>>, currentIndex |-> -1]

\* Array.prototype.slice(0, n)
Slice(s, n) ==
  IF n <= 0 THEN <<>> ELSE SubSeq(s, 1, IF n < Len(s) THEN n ELSE Len(s))

\* the record pushed by addOperation: {...operation, id, timestamp}
Stamp(operation, id, now) ==
  [type |-> operation.type, data |-> operation.data,
   userId |-> operation.userId, userName |-> operation.userName,
   userColor |-> operation.userColor, id |-> id, timestamp |-> now]

\* addOperation without the currentIndex-- that goes with shift()
addOperation_NoDecrement(st, operation, id, now) ==
  LET kept == IF st.currentIndex < Len(st.operations) - 1
              THEN Slice(st.operations, st.currentIndex + 1)
              ELSE st.operations
      pushed == Append(kept, Stamp(operation, id, now))
      ops == IF Len(pushed) > maxHistorySize THEN Tail(pushed) ELSE pushed
      ci == st.currentIndex + 1
  IN [state |-> [operations |-> ops, currentIndex |-> ci],
      ret |-> IF ci + 1 \in DOMAIN ops THEN Some(ops[ci + 1]) ELSE None]

\* addOperation that keeps the undone operations
addOperation_NoTruncate(st, operation, id, now) ==
  LET pushed == Append(st.operations, Stamp(operation, id, now))
      idx == st.currentIndex + 1
      over == Len(pushed) > maxHistorySize
      ops == IF over THEN Tail(pushed) ELSE pushed
      ci == IF over THEN idx - 1 ELSE idx
  IN [state |-> [operations |-> ops, currentIndex |-> ci],
      ret |-> IF ci + 1 \in DOMAIN ops THEN Some(ops[ci + 1]) ELSE None]

\* addOperation without the history limit
addOperation_NoLimit(st, operation, id, now) ==
  LET kept == IF st.currentIndex < Len(st.operations) - 1
              THEN Slice(st.operations, st.currentIndex + 1)
              ELSE st.operations
      ops == Append(kept, Stamp(operation, id, now))
      ci == st.currentIndex + 1
  IN [state |-> [operations |-> ops, currentIndex |-> ci],
      ret |-> IF ci + 1 \in DOMAIN ops THEN Some(ops[ci + 1]) ELSE None]

\* id is the value of generateOperationId(), now the value of Date.now()
addOperation(st, operation, id, now) ==
  LET kept == IF st.currentIndex < Len(st.operations) - 1
              THEN Slice(st.operations, st.currentIndex + 1)
              ELSE st.operations
      pushed == Append(kept, Stamp(operation, id, now))
      idx == st.currentIndex + 1
      over == Len(pushed) > maxHistorySize
      ops == IF over THEN Tail(pushed) ELSE pushed
      ci == IF over THEN idx - 1 ELSE idx
  IN [state |-> [operations |-> ops, currentIndex |-> ci],
      ret |-> IF ci + 1 \in DOMAIN ops THEN Some(ops[ci + 1]) ELSE None]

undo(st) ==
  IF st.currentIndex >= 0
  THEN [state |-> [st EXCEPT !.currentIndex = st.currentIndex - 1],
        ret |-> Some(st.operations[st.currentIndex + 1])]
  ELSE [state |-> st, ret |-> None]

\* redo that returns the operation but leaves the cursor
redo_NoAdvance(st) ==
  IF st.currentIndex < Len(st.operations) - 1
  THEN [state |-> st, ret |-> Some(st.operations[st.currentIndex + 2])]
  ELSE [state |-> st, ret |-> None]

redo(st) ==
  IF st.currentIndex < Len(st.operations) - 1
  THEN [state |-> [st EXCEPT !.currentIndex = st.currentIndex + 1],
        ret |-> Some(st.operations[st.currentIndex + 2])]
  ELSE [state |-> st, ret |-> None]

getActiveOperations(st) == Slice(st.operations, st.currentIndex + 1)

getState(st) ==
  [operations |-> getActiveOperations(st), currentIndex |-> st.currentIndex]

\* clear that empties the history but leaves the cursor
clear_KeepCursor(st) == [operations |-> <<>>, currentIndex |-> st.currentIndex]

clear(st) == [operations |-> <<>>, currentIndex |-> -1]

(***************************************************************************)
(* State                                                                   *)
(***************************************************************************)
VARIABLES
  rooms,      \* RoomManager.rooms: roomId -> [id, state, users, createdAt]
  userRooms,  \* RoomManager.userRooms: socketId -> roomId
  sioRooms,   \* socket.io room membership of each socket (socket.join)
  timers,     \* pending room clean-up timers, in the order they were set:
              \* [roomId, left], left the minutes until the timer is due
  clock,      \* the next value Date.now() returns on the server
  last,       \* SpecServer, SpecTimed: the request handled or the timer
              \* fired in the last step, if any
  status,     \* per connection: "idle", "up" (connected) or "down"
  app,        \* per client: app.operationHistory, app.currentIndex, app.users
  wsRoomId,   \* per client: WebSocketManager.roomId
  c2s,        \* per connection: events emitted by the client, not yet handled
  s2c,        \* per connection: events emitted to the client, not yet handled
  nActs,      \* Spec: what the users have done so far (strokes, requests,
              \* room changes, page closes)
  quiet,      \* SpecTimed: the minutes gone by since the server last handled
              \* a join-room or a disconnect, counted up to cleanupDelay
  ds,         \* SpecLog: the DrawingState object under test
  dsCalls     \* SpecLog: the calls made on ds, with their results

sysVars == <<rooms, userRooms, sioRooms, timers, clock, last, status, app,
             wsRoomId, c2s, s2c, nActs, quiet>>
logVars == <<ds, dsCalls>>
vars == <<rooms, userRooms, sioRooms, timers, clock, last, status, app,
          wsRoomId, c2s, s2c, nActs, quiet, ds, dsCalls>>

(***************************************************************************)
(* RoomManager (server/rooms.js)                                           *)
(* A Map is a function whose domain is the set of keys; room.users, whose  *)
(* insertion order is observable, is the sequence of its values.           *)
(***************************************************************************)
userColors ==
  <<"#FF6B6B", "#4ECDC4", "#45B7D1", "#FFA07A",
    "#98D8C8", "#F7DC6F", "#BB8FCE", "#85C1E2",
    "#F8B739", "#52B788", "#FF85A1", "#5DADE2">>

MapDelete(m, k) == [x \in DOMAIN m \ {k} |-> m[x]]
MapSet(m, k, v) == [x \in DOMAIN m \cup {k} |-> IF x = k THEN v ELSE m[x]]

\* room.users as a Map keyed by user.id
UsersHas(users, id) == \E i \in DOMAIN users : users[i].id = id
UsersGet(users, id) ==
  IF UsersHas(users, id)
  THEN Some(users[CHOOSE i \in DOMAIN users : users[i].id = id])
  ELSE None
UsersSet(users, user) ==
  IF UsersHas(users, user.id)
  THEN [i \in DOMAIN users |-> IF users[i].id = user.id THEN user ELSE users[i]]
  ELSE Append(users, user)
UsersDelete(users, id) == SelectSeq(users, LAMBDA u : u.id # id)

\* a getOrCreateRoom that sets a new room whether or not the id is known
getOrCreateRoom_Reset(rs, roomId, now) ==
  MapSet(rs, roomId, [id |-> roomId, state |-> NewDrawingState,
                      users |-> <<>>, createdAt |-> now])

\* the rooms Map after getOrCreateRoom(roomId); now is Date.now()
getOrCreateRoom(rs, roomId, now) ==
  IF roomId \notin DOMAIN rs
  THEN MapSet(rs, roomId, [id |-> roomId, state |-> NewDrawingState,
                           users |-> <<>>, createdAt |-> now])
  ELSE rs

\* an addUserToRoom that takes the color modulo one less than the palette
addUserToRoom_ShortCycle(rs, ur, roomId, socketId, name, now) ==
  LET rs1 == getOrCreateRoom(rs, roomId, now)
      room == rs1[roomId]
      colorIndex == Len(room.users) % (Len(userColors) - 1)
      user == [id |-> socketId,
               name |-> IF name # None THEN name[1]
                        ELSE "User " \o ToString(Len(room.users) + 1),
               color |-> userColors[colorIndex + 1],
               joinedAt |-> now]
  IN [rooms |-> [rs1 EXCEPT ![roomId].users = UsersSet(room.users, user)],
      userRooms |-> MapSet(ur, socketId, roomId),
      user |-> user]

\* userData.name is an option value; now is Date.now()
addUserToRoom(rs, ur, roomId, socketId, name, now) ==
  LET rs1 == getOrCreateRoom(rs, roomId, now)
      room == rs1[roomId]
      colorIndex == Len(room.users) % Len(userColors)
      user == [id |-> socketId,
               name |-> IF name # None THEN name[1]
                        ELSE "User " \o ToString(Len(room.users) + 1),
               color |-> userColors[colorIndex + 1],
               joinedAt |-> now]
  IN [rooms |-> [rs1 EXCEPT ![roomId].users = UsersSet(room.users, user)],
      userRooms |-> MapSet(ur, socketId, roomId),
      user |-> user]

\* a removeUser without this.userRooms.delete(socketId)
removeUser_KeepIndex(rs, ur, socketId) ==
  IF socketId \notin DOMAIN ur \/ ur[socketId] \notin DOMAIN rs
  THEN [rooms |-> rs, userRooms |-> ur, ret |-> None, timer |-> FALSE]
  ELSE LET roomId == ur[socketId]
           left == UsersDelete(rs[roomId].users, socketId)
           rs1 == [rs EXCEPT ![roomId].users = left]
       IN [rooms |-> rs1, userRooms |-> ur,
           ret |-> Some(rs1[roomId]), timer |-> Len(left) = 0]

\* a removeUser that also takes the operations of the user out of the log
removeUser_DropOperations(rs, ur, socketId) ==
  IF socketId \notin DOMAIN ur \/ ur[socketId] \notin DOMAIN rs
  THEN [rooms |-> rs, userRooms |-> ur, ret |-> None, timer |-> FALSE]
  ELSE LET roomId == ur[socketId]
           left == UsersDelete(rs[roomId].users, socketId)
           ops == SelectSeq(rs[roomId].state.operations,
                            LAMBDA o : o.userId # socketId)
           rs1 == [rs EXCEPT ![roomId].users = left,
                             ![roomId].state =
                               [operations |-> ops, currentIndex |-> Len(ops) - 1]]
       IN [rooms |-> rs1, userRooms |-> MapDelete(ur, socketId),
           ret |-> Some(rs1[roomId]), timer |-> Len(left) = 0]

\* removeUser up to the setTimeout: the maps, the room returned (an option)
\* and whether a clean-up timer is set for it
removeUser(rs, ur, socketId) ==
  IF socketId \notin DOMAIN ur \/ ur[socketId] \notin DOMAIN rs
  THEN [rooms |-> rs, userRooms |-> ur, ret |-> None, timer |-> FALSE]
  ELSE LET roomId == ur[socketId]
           left == UsersDelete(rs[roomId].users, socketId)
           rs1 == [rs EXCEPT ![roomId].users = left]
       IN [rooms |-> rs1, userRooms |-> MapDelete(ur, socketId),
           ret |-> Some(rs1[roomId]), timer |-> Len(left) = 0]

\* a callback that deletes the room without looking at room.users again
cleanupRoom_NoRecheck(rs, roomId) ==
  IF roomId \in DOMAIN rs THEN MapDelete(rs, roomId) ELSE rs

\* the callback handed to setTimeout by removeUser
cleanupRoom(rs, roomId) ==
  IF roomId \in DOMAIN rs /\ Len(rs[roomId].users) = 0
  THEN MapDelete(rs, roomId)
  ELSE rs

getRoomBySocketId(rs, ur, socketId) ==
  IF socketId \in DOMAIN ur /\ ur[socketId] \in DOMAIN rs
  THEN Some(rs[ur[socketId]])
  ELSE None

getUser(rs, ur, socketId) ==
  LET room == getRoomBySocketId(rs, ur, socketId)
  IN IF room # None THEN UsersGet(room[1].users, socketId) ELSE None

getRoomUsers(rs, roomId) ==
  IF roomId \notin DOMAIN rs THEN <<>> ELSE rs[roomId].users

\* getStats: the rooms array is kept as a function of the room id, as the
\* rooms Map is
getStats(rs, ur) ==
  [totalRooms |-> Cardinality(DOMAIN rs),
   totalUsers |-> Cardinality(DOMAIN ur),
   rooms |-> [r \in DOMAIN rs |->
                [id |-> rs[r].id,
                 users |-> Len(rs[r].users),
                 operations |-> Len(rs[r].state.operations)]]]

(***************************************************************************)
(* Server (server/server.js): what one run of each socket handler leaves   *)
(* behind, as a record of the server's state, the log request it served    *)
(* (last) and the events it emitted to each connection (out)               *)
(***************************************************************************)
NoOut == [c \in Conns |-> <<>>]

Srv ==
  [rooms |-> rooms, userRooms |-> userRooms, sioRooms |-> sioRooms,
   timers |-> timers, clock |-> clock, last |-> None, out |-> NoOut]

\* the sockets io.to(roomId) reaches; socket.to(roomId) leaves the sender out
InSioRoom(sio, roomId) == {c \in Conns : roomId \in sio[c]}

EmitTo(targets, msg) == [c \in Conns |-> IF c \in targets THEN <<msg>> ELSE <<>>]

\* a request served in a room: its kind, its sender, the room the sender
\* resolves to and what the log returned for it
LogRequest(kind, c, roomId, ret) ==
  Some([kind |-> kind, conn |-> c, room |-> Some(roomId), ret |-> ret,
        prev |-> <<>>])

\* a request of a sender that resolves to no room
NoRoomRequest(kind, c) ==
  Some([kind |-> kind, conn |-> c, room |-> None, ret |-> None, prev |-> <<>>])

\* a join-room handler that sends the whole history, undone operations too
JoinRoomHandler_WholeLog(c, data) ==
  LET roomId == IF data.roomId # None THEN data.roomId[1] ELSE "default"
      r == addUserToRoom(rooms, userRooms, roomId, c, data.name, clock)
      room == getRoomBySocketId(r.rooms, r.userRooms, c)[1]
      sio == [sioRooms EXCEPT ![c] = @ \cup {roomId}]
      users == getRoomUsers(r.rooms, roomId)
  IN [Srv EXCEPT
        !.rooms = r.rooms,
        !.userRooms = r.userRooms,
        !.sioRooms = sio,
        !.clock = clock + 1,
        !.last = LogRequest("join-room", c, roomId, None),
        !.out = [x \in Conns |->
                   IF x = c
                   THEN <<[ev |-> "user-joined", user |-> r.user, roomId |-> roomId],
                          [ev |-> "canvas-state",
                           state |-> [operations |-> room.state.operations,
                                      currentIndex |-> room.state.currentIndex]],
                          [ev |-> "users-list", users |-> users]>>
                   ELSE IF x \in InSioRoom(sio, roomId)
                   THEN <<[ev |-> "user-connected", user |-> r.user,
                           users |-> users]>>
                   ELSE <<>>]]

\* socket.on('join-room'); data.roomId and data.user.name are option values
JoinRoomHandler(c, data) ==
  LET roomId == IF data.roomId # None THEN data.roomId[1] ELSE "default"
      r == addUserToRoom(rooms, userRooms, roomId, c, data.name, clock)
      room == getRoomBySocketId(r.rooms, r.userRooms, c)[1]
      sio == [sioRooms EXCEPT ![c] = @ \cup {roomId}]
      users == getRoomUsers(r.rooms, roomId)
  IN [Srv EXCEPT
        !.rooms = r.rooms,
        !.userRooms = r.userRooms,
        !.sioRooms = sio,
        !.clock = clock + 1,
        !.last = LogRequest("join-room", c, roomId, None),
        !.out = [x \in Conns |->
                   IF x = c
                   THEN <<[ev |-> "user-joined", user |-> r.user, roomId |-> roomId],
                          [ev |-> "canvas-state", state |-> getState(room.state)],
                          [ev |-> "users-list", users |-> users]>>
                   ELSE IF x \in InSioRoom(sio, roomId)
                   THEN <<[ev |-> "user-connected", user |-> r.user,
                           users |-> users]>>
                   ELSE <<>>]]

\* socket.on('draw'); a handler that throws changes nothing
DrawHandler(c, data) ==
  LET room == getRoomBySocketId(rooms, userRooms, c)
      user == getUser(rooms, userRooms, c)
  IN IF room = None \/ user = None
     THEN [Srv EXCEPT !.last = NoRoomRequest("draw", c)]
     ELSE LET r == addOperation(room[1].state,
                     [type |-> "draw", data |-> data, userId |-> c,
                      userName |-> user[1].name, userColor |-> user[1].color],
                     clock, clock)
          IN [Srv EXCEPT
                !.rooms = [rooms EXCEPT ![room[1].id].state = r.state],
                !.clock = clock + 1,
                !.last = LogRequest("draw", c, room[1].id, r.ret),
                !.out = IF r.ret = None THEN NoOut
                        ELSE EmitTo(InSioRoom(sioRooms, room[1].id) \ {c},
                               [ev |-> "draw", operation |-> r.ret[1]])]

\* a draw-path handler that stores the path in the history
DrawPathHandler_Stored(c, data) ==
  LET room == getRoomBySocketId(rooms, userRooms, c)
      user == getUser(rooms, userRooms, c)
  IN IF room = None \/ user = None
     THEN [Srv EXCEPT !.last = NoRoomRequest("draw-path", c)]
     ELSE LET r == addOperation(room[1].state,
                     [type |-> "draw", data |-> data, userId |-> c,
                      userName |-> user[1].name, userColor |-> user[1].color],
                     clock, clock)
          IN [Srv EXCEPT
                !.rooms = [rooms EXCEPT ![room[1].id].state = r.state],
                !.last = LogRequest("draw-path", c, room[1].id, None),
                !.out = EmitTo(InSioRoom(sioRooms, room[1].id) \ {c},
                          [ev |-> "draw-path", data |-> data, userId |-> c,
                           userColor |-> user[1].color])]

\* socket.on('draw-path')
DrawPathHandler(c, data) ==
  LET room == getRoomBySocketId(rooms, userRooms, c)
      user == getUser(rooms, userRooms, c)
  IN IF room = None \/ user = None
     THEN [Srv EXCEPT !.last = NoRoomRequest("draw-path", c)]
     ELSE [Srv EXCEPT
             !.last = LogRequest("draw-path", c, room[1].id, None),
             !.out = EmitTo(InSioRoom(sioRooms, room[1].id) \ {c},
                       [ev |-> "draw-path", data |-> data, userId |-> c,
                        userColor |-> user[1].color])]

\* socket.on('cursor-move')
CursorMoveHandler(c, data) ==
  LET room == getRoomBySocketId(rooms, userRooms, c)
      user == getUser(rooms, userRooms, c)
  IN IF room = None \/ user = None
     THEN [Srv EXCEPT !.last = NoRoomRequest("cursor-move", c)]
     ELSE [Srv EXCEPT
             !.last = LogRequest("cursor-move", c, room[1].id, None),
             !.out = EmitTo(InSioRoom(sioRooms, room[1].id) \ {c},
                       [ev |-> "cursor-move", userId |-> c,
                        userName |-> user[1].name, userColor |-> user[1].color,
                        x |-> data.x, y |-> data.y])]

\* socket.on('stroke-complete'); a handler that throws changes nothing
StrokeCompleteHandler(c, data) ==
  LET room == getRoomBySocketId(rooms, userRooms, c)
      user == getUser(rooms, userRooms, c)
  IN IF room = None \/ user = None
     THEN [Srv EXCEPT !.last = NoRoomRequest("stroke", c)]
     ELSE LET r == addOperation(room[1].state,
                     [type |-> "stroke", data |-> data, userId |-> c,
                      userName |-> user[1].name, userColor |-> user[1].color],
                     clock, clock)
          IN [Srv EXCEPT
                !.rooms = [rooms EXCEPT ![room[1].id].state = r.state],
                !.clock = clock + 1,
                !.last = LogRequest("stroke", c, room[1].id, r.ret),
                !.out = IF r.ret = None THEN NoOut
                        ELSE EmitTo(InSioRoom(sioRooms, room[1].id) \ {c},
                               [ev |-> "stroke-complete", operation |-> r.ret[1]])]

\* an undo handler that lets a member undo only an operation of their own
UndoHandler_OwnOnly(c) ==
  LET room == getRoomBySocketId(rooms, userRooms, c)
  IN IF room = None
     THEN [Srv EXCEPT !.last = NoRoomRequest("undo", c)]
     ELSE LET st == room[1].state
              own == /\ st.currentIndex >= 0
                     /\ st.operations[st.currentIndex + 1].userId = c
              r == IF own THEN undo(st) ELSE [state |-> st, ret |-> None]
          IN [Srv EXCEPT
                !.rooms = [rooms EXCEPT ![room[1].id].state = r.state],
                !.last = LogRequest("undo", c, room[1].id, r.ret),
                !.out = IF r.ret = None THEN NoOut
                        ELSE EmitTo(InSioRoom(sioRooms, room[1].id),
                               [ev |-> "undo", operation |-> r.ret[1],
                                requestedBy |-> c])]

\* an undo handler without the if (operation) around the broadcast
UndoHandler_Unchecked(c) ==
  LET room == getRoomBySocketId(rooms, userRooms, c)
  IN IF room = None
     THEN [Srv EXCEPT !.last = NoRoomRequest("undo", c)]
     ELSE LET r == undo(room[1].state)
          IN [Srv EXCEPT
                !.rooms = [rooms EXCEPT ![room[1].id].state = r.state],
                !.last = LogRequest("undo", c, room[1].id, r.ret),
                !.out = EmitTo(InSioRoom(sioRooms, room[1].id),
                               [ev |-> "undo", operation |-> r.ret,
                                requestedBy |-> c])]

\* socket.on('undo')
UndoHandler(c) ==
  LET room == getRoomBySocketId(rooms, userRooms, c)
  IN IF room = None
     THEN [Srv EXCEPT !.last = NoRoomRequest("undo", c)]
     ELSE LET r == undo(room[1].state)
          IN [Srv EXCEPT
                !.rooms = [rooms EXCEPT ![room[1].id].state = r.state],
                !.last = LogRequest("undo", c, room[1].id, r.ret),
                !.out = IF r.ret = None THEN NoOut
                        ELSE EmitTo(InSioRoom(sioRooms, room[1].id),
                               [ev |-> "undo", operation |-> r.ret[1],
                                requestedBy |-> c])]

\* a redo handler that emits with socket.to, which leaves the sender out
RedoHandler_ToOthers(c) ==
  LET room == getRoomBySocketId(rooms, userRooms, c)
  IN IF room = None
     THEN [Srv EXCEPT !.last = NoRoomRequest("redo", c)]
     ELSE LET r == redo(room[1].state)
          IN [Srv EXCEPT
                !.rooms = [rooms EXCEPT ![room[1].id].state = r.state],
                !.last = LogRequest("redo", c, room[1].id, r.ret),
                !.out = IF r.ret = None THEN NoOut
                        ELSE EmitTo(InSioRoom(sioRooms, room[1].id) \ {c},
                               [ev |-> "redo", operation |-> r.ret[1],
                                requestedBy |-> c])]

\* socket.on('redo')
RedoHandler(c) ==
  LET room == getRoomBySocketId(rooms, userRooms, c)
  IN IF room = None
     THEN [Srv EXCEPT !.last = NoRoomRequest("redo", c)]
     ELSE LET r == redo(room[1].state)
          IN [Srv EXCEPT
                !.rooms = [rooms EXCEPT ![room[1].id].state = r.state],
                !.last = LogRequest("redo", c, room[1].id, r.ret),
                !.out = IF r.ret = None THEN NoOut
                        ELSE EmitTo(InSioRoom(sioRooms, room[1].id),
                               [ev |-> "redo", operation |-> r.ret[1],
                                requestedBy |-> c])]

\* a clear-canvas handler that clears the state of every room
ClearCanvasHandler_AllRooms(c) ==
  LET room == getRoomBySocketId(rooms, userRooms, c)
  IN IF room = None
     THEN [Srv EXCEPT !.last = NoRoomRequest("clear", c)]
     ELSE [Srv EXCEPT
             !.rooms = [r \in DOMAIN rooms |->
                          [rooms[r] EXCEPT !.state = clear(rooms[r].state)]],
             !.last = LogRequest("clear", c, room[1].id, None),
             !.out = EmitTo(InSioRoom(sioRooms, room[1].id),
                            [ev |-> "clear-canvas", clearedBy |-> c])]

\* a clear-canvas handler that takes room 'default' for a socket without room
ClearCanvasHandler_Default(c) ==
  LET own == getRoomBySocketId(rooms, userRooms, c)
      room == IF own = None /\ "default" \in DOMAIN rooms
              THEN Some(rooms["default"]) ELSE own
  IN IF room = None
     THEN [Srv EXCEPT !.last = NoRoomRequest("clear", c)]
     ELSE [Srv EXCEPT
             !.rooms = [rooms EXCEPT ![room[1].id].state = clear(room[1].state)],
             !.last = IF own = None THEN NoRoomRequest("clear", c)
                      ELSE LogRequest("clear", c, room[1].id, None),
             !.out = EmitTo(InSioRoom(sioRooms, room[1].id),
                            [ev |-> "clear-canvas", clearedBy |-> c])]

\* socket.on('clear-canvas')
ClearCanvasHandler(c) ==
  LET room == getRoomBySocketId(rooms, userRooms, c)
  IN IF room = None
     THEN [Srv EXCEPT !.last = NoRoomRequest("clear", c)]
     ELSE [Srv EXCEPT
             !.rooms = [rooms EXCEPT ![room[1].id].state = clear(room[1].state)],
             !.last = LogRequest("clear", c, room[1].id, None),
             !.out = EmitTo(InSioRoom(sioRooms, room[1].id),
                            [ev |-> "clear-canvas", clearedBy |-> c])]

\* setTimeout(callback, 5 * 60 * 1000) of removeUser: the timer it starts
setTimeout(roomId) == [roomId |-> roomId, left |-> cleanupDelay]

\* socket.on('disconnect'); socket.io has taken the socket out of its rooms
DisconnectHandler(c) ==
  LET r == removeUser(rooms, userRooms, c)
      sio == [sioRooms EXCEPT ![c] = {}]
  IN [Srv EXCEPT
        !.rooms = r.rooms,
        !.userRooms = r.userRooms,
        !.sioRooms = sio,
        !.timers = IF r.timer THEN Append(timers, setTimeout(r.ret[1].id))
                   ELSE timers,
        !.last = IF r.ret = None THEN NoRoomRequest("disconnect", c)
                 ELSE LogRequest("disconnect", c, r.ret[1].id, None),
        !.out = IF r.ret = None THEN NoOut
                ELSE EmitTo(InSioRoom(sio, r.ret[1].id),
                       [ev |-> "user-disconnected", userId |-> c,
                        users |-> getRoomUsers(r.rooms, r.ret[1].id)])]

\* the server's state after a handler has run
ServerStep(r) ==
  /\ rooms' = r.rooms
  /\ userRooms' = r.userRooms
  /\ sioRooms' = r.sioRooms
  /\ timers' = r.timers
  /\ clock' = r.clock

\* d minutes go by on every pending timer
Elapse(ts, d) == [i \in DOMAIN ts |-> [ts[i] EXCEPT !.left = @ - d]]

\* the time left on the timer set first goes by and it fires (all timers
\* have the same delay, so they fire in the order they were set)
TimerFire ==
  /\ timers # <<>>
  /\ rooms' = cleanupRoom(rooms, Head(timers).roomId)
  /\ timers' = Elapse(Tail(timers), Head(timers).left)
  /\ last' = None
  /\ UNCHANGED <<userRooms, sioRooms, clock, status, app, wsRoomId, c2s, s2c,
                 nActs, quiet>>
  /\ UNCHANGED logVars

(***************************************************************************)
(* Client (client/main.js, client/websocket.js)                            *)
(***************************************************************************)
NewApp == [operationHistory |-> <<>>, currentIndex |-> -1, users |-> <<>>]

\* WebSocketManager.joinRoom: the join-room event
JoinRoomMsg(c, roomId) ==
  [ev |-> "join-room", roomId |-> Some(roomId), name |-> Some("User " \o c)]

\* CanvasManager.stopDrawing: the path drawn on client c, the k-th drawn
StrokeDraft(c, k) == [type |-> "stroke", points |-> <<c, k>>]

\* socket 'connect': connected = true; joinRoom(this.roomId)
Connect(c) ==
  /\ status[c] = "idle"
  /\ status' = [status EXCEPT ![c] = "up"]
  /\ c2s' = [c2s EXCEPT ![c] = Append(@, JoinRoomMsg(c, wsRoomId[c]))]
  /\ last' = None
  /\ UNCHANGED <<rooms, userRooms, sioRooms, timers, clock, app, wsRoomId,
                 s2c, nActs>>
  /\ UNCHANGED logVars
  /\ UNCHANGED quiet

\* joinRoomBtn click with a non-empty room id
JoinRoomBtn(c, roomId) ==
  /\ status[c] = "up"
  /\ nActs < MaxActs
  /\ nActs' = nActs + 1
  /\ wsRoomId' = [wsRoomId EXCEPT ![c] = roomId]
  /\ c2s' = [c2s EXCEPT ![c] = Append(@, JoinRoomMsg(c, roomId))]
  /\ last' = None
  /\ UNCHANGED <<rooms, userRooms, sioRooms, timers, clock, status, app, s2c>>
  /\ UNCHANGED logVars
  /\ UNCHANGED quiet

\* canvas mouseup / mouseleave with a non-empty stroke:
\* sendStrokeComplete(operation); operationHistory.push(operation); currentIndex++
MouseUp(c) ==
  /\ status[c] = "up"
  /\ nActs < MaxActs
  /\ LET operation == StrokeDraft(c, nActs + 1)
     IN /\ c2s' = [c2s EXCEPT ![c] =
                     Append(@, [ev |-> "stroke-complete", data |-> operation])]
        /\ app' = [app EXCEPT
                     ![c].operationHistory = Append(@, operation),
                     ![c].currentIndex = @ + 1]
  /\ nActs' = nActs + 1
  /\ last' = None
  /\ UNCHANGED <<rooms, userRooms, sioRooms, timers, clock, status, wsRoomId,
                 s2c>>
  /\ UNCHANGED logVars
  /\ UNCHANGED quiet

\* sendUndo / sendRedo / sendClearCanvas
SendRequest(c, ev) ==
  /\ status[c] = "up"
  /\ nActs < MaxActs
  /\ nActs' = nActs + 1
  /\ c2s' = [c2s EXCEPT ![c] = Append(@, [ev |-> ev])]
  /\ last' = None
  /\ UNCHANGED <<rooms, userRooms, sioRooms, timers, clock, status, app,
                 wsRoomId, s2c>>
  /\ UNCHANGED logVars
  /\ UNCHANGED quiet

SendUndo(c) == SendRequest(c, "undo")
SendRedo(c) == SendRequest(c, "redo")
SendClearCanvas(c) == SendRequest(c, "clear-canvas")

\* app.ws.onCanvasState
onCanvasState(a, state) ==
  [a EXCEPT !.operationHistory = state.operations,
            !.currentIndex = state.currentIndex]

\* app.ws.onStrokeComplete
onStrokeComplete(a, operation) ==
  [a EXCEPT !.operationHistory = Append(@, operation),
            !.currentIndex = @ + 1]

\* app.ws.onUndo
onUndo(a) ==
  IF a.currentIndex >= 0 THEN [a EXCEPT !.currentIndex = @ - 1] ELSE a

\* app.ws.onRedo
onRedo(a) ==
  IF a.currentIndex < Len(a.operationHistory) - 1
  THEN [a EXCEPT !.currentIndex = @ + 1]
  ELSE a

\* app.ws.onClearCanvas
onClearCanvas(a) == [a EXCEPT !.operationHistory = <<>>, !.currentIndex = -1]

\* app.ws.onUsersUpdate
onUsersUpdate(a, users) == [a EXCEPT !.users = users]

\* the socket listeners of setupSocketListeners, by event
Dispatch(a, msg) ==
  CASE msg.ev = "canvas-state" -> onCanvasState(a, msg.state)
    [] msg.ev = "stroke-complete" -> onStrokeComplete(a, msg.operation)
    [] msg.ev = "undo" -> onUndo(a)
    [] msg.ev = "redo" -> onRedo(a)
    [] msg.ev = "clear-canvas" -> onClearCanvas(a)
    [] msg.ev \in {"user-connected", "user-disconnected", "users-list"} ->
         onUsersUpdate(a, msg.users)
    [] OTHER -> a

\* the client handles the next event the server sent it
Receive(c) ==
  /\ status[c] = "up"
  /\ s2c[c] # <<>>
  /\ app' = [app EXCEPT ![c] = Dispatch(@, Head(s2c[c]))]
  /\ s2c' = [s2c EXCEPT ![c] = Tail(@)]
  /\ last' = None
  /\ UNCHANGED <<rooms, userRooms, sioRooms, timers, clock, status, wsRoomId,
                 c2s, nActs>>
  /\ UNCHANGED logVars
  /\ UNCHANGED quiet

\* the active slice a client redraws from
ClientActive(c) == Slice(app[c].operationHistory, app[c].currentIndex + 1)

(***************************************************************************)
(* Spec: the server handles the events of each connection in the order     *)
(* the client emitted them; what it emits queues up for the clients        *)
(***************************************************************************)
Inbound(c, ev) ==
  /\ status[c] = "up"
  /\ c2s[c] # <<>>
  /\ Head(c2s[c]).ev = ev

Handled(c, r) ==
  /\ ServerStep(r)
  /\ last' = None
  /\ c2s' = [c2s EXCEPT ![c] = Tail(@)]
  /\ s2c' = [x \in Conns |-> s2c[x] \o r.out[x]]
  /\ UNCHANGED <<status, app, wsRoomId, nActs>>
  /\ UNCHANGED logVars
  /\ UNCHANGED quiet

OnJoinRoom(c) ==
  Inbound(c, "join-room") /\ Handled(c, JoinRoomHandler(c, Head(c2s[c])))
OnStrokeComplete(c) ==
  /\ Inbound(c, "stroke-complete")
  /\ Handled(c, StrokeCompleteHandler(c, Head(c2s[c]).data))
OnUndo(c) == Inbound(c, "undo") /\ Handled(c, UndoHandler(c))
OnRedo(c) == Inbound(c, "redo") /\ Handled(c, RedoHandler(c))
OnClearCanvas(c) == Inbound(c, "clear-canvas") /\ Handled(c, ClearCanvasHandler(c))

\* the connection closes: both ends see 'disconnect', what was in flight on
\* the connection is lost
OnDisconnect(c) ==
  /\ status[c] = "up"
  /\ nActs < MaxActs
  /\ nActs' = nActs + 1
  /\ LET r == DisconnectHandler(c)
     IN /\ ServerStep(r)
        /\ s2c' = [x \in Conns |-> IF x = c THEN <<>> ELSE s2c[x] \o r.out[x]]
  /\ last' = None
  /\ status' = [status EXCEPT ![c] = "down"]
  /\ c2s' = [c2s EXCEPT ![c] = <<>>]
  /\ UNCHANGED <<app, wsRoomId>>
  /\ UNCHANGED logVars
  /\ UNCHANGED quiet

(***************************************************************************)
(* SpecServer: the server alone, fed any event any connected socket can    *)
(* send; s2c holds what the handler that ran last emitted                  *)
(***************************************************************************)
\* join-room data: nothing given (room 'default', name "User N"), or a room
\* other than 'default' and a name
JoinData ==
  {[roomId |-> None, name |-> None]} \cup
  {[roomId |-> Some(r), name |-> Some("Ann")] : r \in RoomIds \ {"default"}}

\* the request just handled; a redo also tells the undo, and its sender,
\* that the step before handled in the same room, if it did
After2(req) ==
  IF req = None THEN None
  ELSE Some([req[1] EXCEPT !.prev =
               IF /\ req[1].kind = "redo" /\ req[1].room # None
                  /\ last # None /\ last[1].kind = "undo"
                  /\ last[1].room = req[1].room
               THEN <<last[1].kind, last[1].conn>> ELSE <<>>])

\* socket c is connected and the handler of one of its events runs
Run(c, r) ==
  /\ status[c] = "up"
  /\ ServerStep(r)
  /\ last' = After2(r.last)
  /\ s2c' = r.out
  /\ UNCHANGED <<status, app, wsRoomId, c2s, nActs>>
  /\ UNCHANGED logVars

Fed(c, r) == Run(c, r) /\ UNCHANGED quiet

SrvConnection(c) ==
  /\ status[c] = "idle"
  /\ status' = [status EXCEPT ![c] = "up"]
  /\ last' = None
  /\ s2c' = NoOut
  /\ UNCHANGED <<rooms, userRooms, sioRooms, timers, clock, app, wsRoomId,
                 c2s, nActs>>
  /\ UNCHANGED logVars
  /\ UNCHANGED quiet

\* the point a draw-path or cursor-move event of client c carries
PointOf(c) == [x |-> 1, y |-> 2]

SrvJoinRoom(c, data) == clock <= MaxClock /\ Fed(c, JoinRoomHandler(c, data))
SrvDraw(c) ==
  clock <= MaxClock /\ Fed(c, DrawHandler(c, StrokeDraft(c, clock)))
SrvDrawPath(c) == Fed(c, DrawPathHandler(c, PointOf(c)))
SrvStrokeComplete(c) ==
  clock <= MaxClock /\ Fed(c, StrokeCompleteHandler(c, StrokeDraft(c, clock)))
SrvCursorMove(c) == Fed(c, CursorMoveHandler(c, PointOf(c)))
SrvUndo(c) == Fed(c, UndoHandler(c))
SrvRedo(c) == Fed(c, RedoHandler(c))
SrvClearCanvas(c) == Fed(c, ClearCanvasHandler(c))

\* socket c closes and its disconnect handler runs
Close(c) ==
  /\ status[c] = "up"
  /\ LET r == DisconnectHandler(c)
     IN ServerStep(r) /\ last' = After2(r.last) /\ s2c' = r.out
  /\ status' = [status EXCEPT ![c] = "down"]
  /\ UNCHANGED <<app, wsRoomId, c2s, nActs>>
  /\ UNCHANGED logVars

SrvDisconnect(c) == Close(c) /\ UNCHANGED quiet

(***************************************************************************)
(* SpecTimed: the server fed joins, strokes, undos and disconnections,     *)
(* with the minutes that go by between them; a clean-up timer fires when   *)
(* its delay has gone by, before any more time passes                      *)
(***************************************************************************)
TmJoinRoom(c, data) ==
  clock <= MaxClock /\ Run(c, JoinRoomHandler(c, data)) /\ quiet' = 0
TmStrokeComplete(c) ==
  /\ clock <= MaxClock
  /\ Run(c, StrokeCompleteHandler(c, StrokeDraft(c, clock)))
  /\ UNCHANGED quiet
TmUndo(c) == Run(c, UndoHandler(c)) /\ UNCHANGED quiet
TmDisconnect(c) == Close(c) /\ quiet' = 0

\* a minute goes by and no timer is due
Tick ==
  /\ timers # <<>> \/ quiet < cleanupDelay
  /\ \A i \in DOMAIN timers : timers[i].left > 0
  /\ timers' = Elapse(timers, 1)
  /\ quiet' = IF quiet < cleanupDelay THEN quiet + 1 ELSE quiet
  /\ last' = None
  /\ s2c' = NoOut
  /\ UNCHANGED <<rooms, userRooms, sioRooms, clock, status, app, wsRoomId,
                 c2s, nActs>>
  /\ UNCHANGED logVars

\* the timer that is due fires: the callback of setTimeout runs
TimerDue ==
  /\ timers # <<>>
  /\ Head(timers).left = 0
  /\ rooms' = cleanupRoom(rooms, Head(timers).roomId)
  /\ timers' = Tail(timers)
  /\ last' = Some([kind |-> "timer", room |-> Some(Head(timers).roomId)])
  /\ s2c' = NoOut
  /\ UNCHANGED <<userRooms, sioRooms, clock, status, app, wsRoomId, c2s,
                 nActs, quiet>>
  /\ UNCHANGED logVars

(***************************************************************************)
(* SpecRooms: calls on one RoomManager object. The sockets of MaxSockets   *)
(* connections join room 'r1' one after the other, each once, and up to   *)
(* MaxLeaves of them leave, in any order; it all happens before the first  *)
(* clean-up timer is due                                                   *)
(***************************************************************************)
\* the socket.id of the k-th connection
SocketId(k) == "s" \o ToString(k)

\* roomManager.addUserToRoom('r1', socket.id, {}) for the next connection
MgrAddUser ==
  /\ clock <= MaxSockets
  /\ LET r == addUserToRoom(rooms, userRooms, "r1", SocketId(clock), None, clock)
     IN rooms' = r.rooms /\ userRooms' = r.userRooms
  /\ clock' = clock + 1
  /\ UNCHANGED <<sioRooms, timers, last, status, app, wsRoomId, c2s, s2c,
                 nActs, quiet>>
  /\ UNCHANGED logVars

\* roomManager.removeUser(socket.id) for the k-th connection
MgrRemoveUser(k) ==
  /\ SocketId(k) \in DOMAIN userRooms
  /\ (clock - 1) - Cardinality(DOMAIN userRooms) < MaxLeaves
  /\ LET r == removeUser(rooms, userRooms, SocketId(k))
     IN /\ rooms' = r.rooms
        /\ userRooms' = r.userRooms
        /\ timers' = IF r.timer THEN Append(timers, setTimeout(r.ret[1].id))
                      ELSE timers
  /\ UNCHANGED <<sioRooms, clock, last, status, app, wsRoomId, c2s, s2c,
                 nActs, quiet>>
  /\ UNCHANGED logVars

(***************************************************************************)
(* SpecLog: calls on one DrawingState object                               *)
(***************************************************************************)
\* the operation the server hands to addOperation for a stroke of c
StrokeOf(c) ==
  [type |-> "stroke", data |-> StrokeDraft(c, 1), userId |-> c,
   userName |-> "User " \o c, userColor |-> userColors[1]]

\* a log holding operations 1..n, as n appends leave it
FilledLog(n) == [i \in 1..n |-> Stamp(StrokeOf("A"), i, i)]

\* dsCalls records each call with the state it found and what it returned
LogCall(call, r) ==
  /\ Len(dsCalls) < MaxLogCalls
  /\ ds' = r.state
  /\ dsCalls' = Append(dsCalls, [call |-> call, ret |-> r.ret, before |-> ds])
  /\ UNCHANGED sysVars

\* ids and timestamps go on from those of the operations already logged
LogAppend(c) ==
  LET id == maxHistorySize + Len(dsCalls) + 1
  IN LogCall("addOperation", addOperation(ds, StrokeOf(c), id, id))
LogUndo == LogCall("undo", undo(ds))
LogRedo == LogCall("redo", redo(ds))
LogClear == LogCall("clear", [state |-> clear(ds), ret |-> None])

(***************************************************************************)
(* Specifications                                                          *)
(***************************************************************************)
SysInit ==
  /\ rooms = <<>>
  /\ userRooms = <<>>
  /\ sioRooms = [c \in Conns |-> {}]
  /\ timers = <<>>
  /\ clock = 1
  /\ last = None
  /\ status = [c \in Conns |-> "idle"]
  /\ app = [c \in Conns |-> NewApp]
  /\ wsRoomId = [c \in Conns |-> "default"]
  /\ c2s = [c \in Conns |-> <<>>]
  /\ s2c = [c \in Conns |-> <<>>]
  /\ nActs = 0
  /\ quiet = 0

Init ==
  /\ SysInit
  /\ ds = NewDrawingState
  /\ dsCalls = <<>>

Next ==
  \/ \E c \in Conns : Connect(c)
  \/ \E c \in Conns, r \in RoomIds : JoinRoomBtn(c, r)
  \/ \E c \in Conns : MouseUp(c)
  \/ \E c \in Conns : SendUndo(c)
  \/ \E c \in Conns : SendRedo(c)
  \/ \E c \in Conns : SendClearCanvas(c)
  \/ \E c \in Conns : Receive(c)
  \/ \E c \in Conns : OnJoinRoom(c)
  \/ \E c \in Conns : OnStrokeComplete(c)
  \/ \E c \in Conns : OnUndo(c)
  \/ \E c \in Conns : OnRedo(c)
  \/ \E c \in Conns : OnClearCanvas(c)
  \/ \E c \in Conns : OnDisconnect(c)
  \/ TimerFire

Spec == Init /\ [][Next]_vars

ServerNext ==
  \/ \E c \in Conns : SrvConnection(c)
  \/ \E c \in Conns, data \in JoinData : SrvJoinRoom(c, data)
  \/ \E c \in Conns : SrvDraw(c)
  \/ \E c \in Conns : SrvDrawPath(c)
  \/ \E c \in Conns : SrvStrokeComplete(c)
  \/ \E c \in Conns : SrvCursorMove(c)
  \/ \E c \in Conns : SrvUndo(c)
  \/ \E c \in Conns : SrvRedo(c)
  \/ \E c \in Conns : SrvClearCanvas(c)
  \/ \E c \in Conns : SrvDisconnect(c)
  \/ TimerFire

SpecServer == Init /\ [][ServerNext]_vars

TimedNext ==
  \/ \E c \in Conns : SrvConnection(c)
  \/ \E c \in Conns, data \in JoinData : TmJoinRoom(c, data)
  \/ \E c \in Conns : TmStrokeComplete(c)
  \/ \E c \in Conns : TmUndo(c)
  \/ \E c \in Conns : TmDisconnect(c)
  \/ Tick
  \/ TimerDue

SpecTimed == Init /\ [][TimedNext]_vars

RoomsNext ==
  \/ MgrAddUser
  \/ \E k \in 1..MaxSockets : MgrRemoveUser(k)

SpecRooms == Init /\ [][RoomsNext]_vars

\* the object is fresh, or holds n operations with the cursor at or just
\* below the top, n within one of maxHistorySize
LogInit ==
  /\ SysInit
  /\ dsCalls = <<>>
  /\ \/ ds = NewDrawingState
     \/ \E n \in (maxHistorySize - 1)..maxHistorySize, k \in 1..2 :
          ds = [operations |-> FilledLog(n), currentIndex |-> n - k]

LogNext ==
  \/ \E c \in Conns : LogAppend(c)
  \/ LogUndo
  \/ LogRedo
  \/ LogClear

SpecLog == LogInit /\ [][LogNext]_vars

(***************************************************************************)
(* Properties of the operation log (SpecLog)                               *)
(***************************************************************************)
\* the state the i-th recorded call left
After(i) == IF i < Len(dsCalls) THEN dsCalls[i + 1].before ELSE ds

\* the id the i-th recorded call, an addOperation, was given
IdOfCall(i) == maxHistorySize + i

CursorInRange(st) ==
  -1 <= st.currentIndex /\ st.currentIndex <= Len(st.operations) - 1

\* C1: in every reachable state of an operation log, whatever appends (also
\* at full capacity), undos, redos and clears were made, and in every room,
\* -1 <= currentIndex <= length(operations) - 1
C1_CursorInRange ==
  /\ CursorInRange(ds)
  /\ \A r \in DOMAIN rooms : CursorInRange(rooms[r].state)

\* an append has just been made to a log that was full with the cursor on top
C1_Witness ==
  /\ dsCalls # <<>>
  /\ LET c == dsCalls[Len(dsCalls)]
     IN /\ c.call = "addOperation"
        /\ Len(c.before.operations) = maxHistorySize
        /\ c.before.currentIndex = maxHistorySize - 1
  /\ ds.currentIndex = Len(ds.operations) - 1

\* C5: an append to a log of length L with cursor c < L-1 discards entries
\* c+1..L-1, keeps entries 0..c, gives length c+2 with the new operation
\* last, sets currentIndex to c+1 and returns the new operation; a redo made
\* right after it returns none
C5_AppendAfterUndo ==
  \A i \in 1..Len(dsCalls) :
    LET b == dsCalls[i].before
        a == After(i)
        c == b.currentIndex
    IN (dsCalls[i].call = "addOperation" /\ c < Len(b.operations) - 1) =>
         /\ Len(a.operations) = c + 2
         /\ SubSeq(a.operations, 1, c + 1) = SubSeq(b.operations, 1, c + 1)
         /\ a.operations[c + 2].id = IdOfCall(i)
         /\ \A k \in 1..Len(b.operations) : b.operations[k].id # IdOfCall(i)
         /\ a.currentIndex = c + 1
         /\ dsCalls[i].ret = Some(a.operations[c + 2])
         /\ (i < Len(dsCalls) /\ dsCalls[i + 1].call = "redo") =>
              dsCalls[i + 1].ret = None

\* an append was made below the top of a log, and a redo right after it
C5_Witness ==
  \E i \in 1..Len(dsCalls) - 1 :
    /\ dsCalls[i].call = "addOperation"
    /\ dsCalls[i].before.currentIndex >= 0
    /\ dsCalls[i].before.currentIndex < Len(dsCalls[i].before.operations) - 1
    /\ dsCalls[i + 1].call = "redo"

\* C6: with currentIndex >= 0, undo() followed at once by redo() returns the
\* same operation both times, restores currentIndex and the active slice,
\* and neither call changes the sequence of operations
C6_UndoRedo ==
  \A i \in 1..Len(dsCalls) - 1 :
    LET b == dsCalls[i].before
        m == After(i)
        a == After(i + 1)
    IN (/\ dsCalls[i].call = "undo"
        /\ b.currentIndex >= 0
        /\ dsCalls[i + 1].call = "redo") =>
         /\ dsCalls[i].ret # None
         /\ dsCalls[i].ret = Some(b.operations[b.currentIndex + 1])
         /\ dsCalls[i + 1].ret = dsCalls[i].ret
         /\ a.currentIndex = b.currentIndex
         /\ getActiveOperations(a) = getActiveOperations(b)
         /\ m.operations = b.operations
         /\ a.operations = b.operations

\* an undo with something to undo, below the top of the log, then a redo
C6_Witness ==
  \E i \in 1..Len(dsCalls) - 1 :
    /\ dsCalls[i].call = "undo"
    /\ dsCalls[i].before.currentIndex >= 0
    /\ dsCalls[i].before.currentIndex < Len(dsCalls[i].before.operations) - 1
    /\ dsCalls[i + 1].call = "redo"
    /\ dsCalls[i + 1].ret # None

\* C7 as stated: the length never exceeds maxHistorySize, and an append to
\* a log of maxHistorySize entries keeps the length, drops exactly the oldest
\* entry, keeps the others in order and leaves currentIndex on the new
\* operation, which is returned
C7_Original ==
  /\ Len(ds.operations) <= maxHistorySize
  /\ \A i \in 1..Len(dsCalls) :
       LET b == dsCalls[i].before
           a == After(i)
       IN (/\ dsCalls[i].call = "addOperation"
           /\ Len(b.operations) = maxHistorySize) =>
            /\ Len(a.operations) = maxHistorySize
            /\ SubSeq(a.operations, 1, maxHistorySize - 1) = Tail(b.operations)
            /\ a.currentIndex = maxHistorySize - 1
            /\ a.operations[a.currentIndex + 1].id = IdOfCall(i)
            /\ dsCalls[i].ret = Some(a.operations[a.currentIndex + 1])

\* C7 (amended): the length never exceeds maxHistorySize, and an append to
\* a log of maxHistorySize entries whose cursor is on the last of them keeps
\* the length, drops exactly the oldest entry, keeps the others in order and
\* leaves currentIndex on the new operation, which is returned
C7_Capacity ==
  /\ Len(ds.operations) <= maxHistorySize
  /\ \A r \in DOMAIN rooms : Len(rooms[r].state.operations) <= maxHistorySize
  /\ \A i \in 1..Len(dsCalls) :
       LET b == dsCalls[i].before
           a == After(i)
       IN (/\ dsCalls[i].call = "addOperation"
           /\ Len(b.operations) = maxHistorySize
           /\ b.currentIndex = maxHistorySize - 1) =>
            /\ Len(a.operations) = maxHistorySize
            /\ SubSeq(a.operations, 1, maxHistorySize - 1) = Tail(b.operations)
            /\ a.currentIndex = maxHistorySize - 1
            /\ a.operations[a.currentIndex + 1].id = IdOfCall(i)
            /\ dsCalls[i].ret = Some(a.operations[a.currentIndex + 1])

\* two appends in a row to a full log with the cursor on top: the two oldest
\* entries are gone
C7_Witness ==
  \E i \in 1..Len(dsCalls) - 1 :
    /\ dsCalls[i].call = "addOperation"
    /\ dsCalls[i + 1].call = "addOperation"
    /\ Len(dsCalls[i].before.operations) = maxHistorySize
    /\ dsCalls[i].before.currentIndex = maxHistorySize - 1
    /\ After(i + 1).operations[1] = dsCalls[i].before.operations[3]

\* C8: clear() leaves length 0 and currentIndex -1; until the next append
\* undo() and redo() return none; a second clear() changes nothing
C8_Clear ==
  \A i \in 1..Len(dsCalls) :
    dsCalls[i].call = "clear" =>
      /\ After(i) = NewDrawingState
      /\ \A j \in (i + 1)..Len(dsCalls) :
           (\A k \in (i + 1)..j : dsCalls[k].call # "addOperation") =>
             /\ dsCalls[j].call \in {"undo", "redo"} => dsCalls[j].ret = None
             /\ After(j) = After(i)

\* a log with operations in it was cleared, then asked to undo, to redo and
\* to clear again
C8_Witness ==
  \E i \in 1..Len(dsCalls) - 3 :
    /\ dsCalls[i].call = "clear"
    /\ dsCalls[i].before.currentIndex >= 0
    /\ {dsCalls[j].call : j \in (i + 1)..(i + 3)} = {"undo", "redo", "clear"}

(***************************************************************************)
(* Properties of the server (SpecServer)                                   *)
(***************************************************************************)
\* C9: undo and redo move the one cursor of the room, whoever asks and
\* whoever wrote the operation. In a room with an empty log, a stroke of A
\* then a stroke of B leave activeSlice = [S1, S2], currentIndex = 1; an undo
\* asked by A returns S2 and leaves currentIndex = 0, activeSlice = [S1]; a
\* redo then asked by B returns S2 and leaves currentIndex = 1
C9_Step ==
  \A r \in DOMAIN rooms :
    (last' # None /\ last'[1].room = Some(r) /\ r \in DOMAIN rooms') =>
      LET q == last'[1]
          st == rooms[r].state
          st2 == rooms'[r].state
          ops == st.operations
          ci == st.currentIndex
      IN /\ (q.kind = "undo" /\ ci >= 0) =>
              /\ q.ret = Some(ops[ci + 1])
              /\ st2 = [st EXCEPT !.currentIndex = ci - 1]
         /\ (q.kind = "redo" /\ ci < Len(ops) - 1) =>
              /\ q.ret = Some(ops[ci + 2])
              /\ st2 = [st EXCEPT !.currentIndex = ci + 1]
         /\ (q.kind = "stroke" /\ q.conn = "A" /\ ops = <<>>) =>
              /\ q.ret # None /\ q.ret[1].userId = "A"
              /\ getActiveOperations(st2) = <<q.ret[1]>>
              /\ st2.currentIndex = 0
         /\ (/\ q.kind = "stroke" /\ q.conn = "B"
             /\ Len(ops) = 1 /\ ci = 0 /\ ops[1].userId = "A") =>
              /\ q.ret # None /\ q.ret[1].userId = "B"
              /\ getActiveOperations(st2) = <<ops[1], q.ret[1]>>
              /\ st2.currentIndex = 1
         /\ (/\ q.kind = "undo" /\ q.conn = "A"
             /\ Len(ops) = 2 /\ ci = 1
             /\ ops[1].userId = "A" /\ ops[2].userId = "B") =>
              /\ q.ret = Some(ops[2])
              /\ st2.currentIndex = 0
              /\ getActiveOperations(st2) = <<ops[1]>>
         /\ (/\ q.kind = "redo" /\ q.conn = "B"
             /\ Len(ops) = 2 /\ ci = 0
             /\ ops[1].userId = "A" /\ ops[2].userId = "B") =>
              /\ q.ret = Some(ops[2])
              /\ st2.currentIndex = 1
              /\ getActiveOperations(st2) = ops

C9_SharedCursor == [][C9_Step]_vars

\* B has just redone, right after A undid it, the stroke S2 of B that
\* follows the stroke S1 of A
C9_Witness ==
  /\ last # None
  /\ last[1].kind = "redo" /\ last[1].conn = "B"
  /\ last[1].prev = <<"undo", "A">>
  /\ LET st == rooms[last[1].room[1]].state
     IN /\ Len(st.operations) = 2
        /\ st.currentIndex = 1
        /\ st.operations[1].userId = "A"
        /\ st.operations[2].userId = "B"
        /\ last[1].ret = Some(st.operations[2])

\* C10: an undo handled at currentIndex = -1 and a redo handled at
\* currentIndex = length-1 return none, leave the log and the cursor as
\* they are and emit nothing to any connection
C10_Step ==
  \A r \in DOMAIN rooms :
    (last' # None /\ last'[1].room = Some(r)) =>
      LET q == last'[1]
          st == rooms[r].state
      IN (\/ q.kind = "undo" /\ st.currentIndex = -1
          \/ q.kind = "redo" /\ st.currentIndex = Len(st.operations) - 1) =>
           /\ q.ret = None
           /\ rooms' = rooms
           /\ s2c' = NoOut

C10_NoOpSilent == [][C10_Step]_vars

\* an undo was just refused in a room of two sockets whose log is not
\* empty, and nothing was emitted
C10_Witness ==
  /\ last # None
  /\ last[1].kind = "undo"
  /\ last[1].ret = None
  /\ last[1].room # None
  /\ Cardinality(InSioRoom(sioRooms, last[1].room[1])) = 2
  /\ Len(rooms[last[1].room[1]].state.operations) > 0
  /\ s2c = NoOut

(***************************************************************************)
(* Properties of the replicas (Spec)                                       *)
(***************************************************************************)
\* the stroke a history entry stands for: the path drawn, whether the entry
\* is the drawer's own record or the operation the server made of it
Key(e) == IF "data" \in DOMAIN e THEN e.data.points ELSE e.points
Keys(h) == [i \in DOMAIN h |-> Key(h[i])]

\* the connections the registry holds as members of room r
Members(r) ==
  {c \in Conns : status[c] = "up" /\ c \in DOMAIN userRooms /\ userRooms[c] = r}

Quiescent == \A c \in Conns : c2s[c] = <<>> /\ s2c[c] = <<>>

\* C2: once every message has been delivered, the active slice of every
\* member of a room holds the same strokes, in the same order, as the
\* active slice of the room on the server
C2_ReplicasAgree ==
  Quiescent =>
    \A r \in DOMAIN rooms : \A c \in Members(r) :
      Keys(ClientActive(c)) = Keys(getActiveOperations(rooms[r].state))

\* C3: for every stroke in the log of a room, the record a member of the
\* room holds for it, the submitter too, is the operation addOperation
\* returned, with its id, timestamp and author
C3_CanonicalRecord ==
  \A r \in DOMAIN rooms : \A c \in Members(r) :
    \A i \in DOMAIN rooms[r].state.operations :
      \A j \in DOMAIN app[c].operationHistory :
        Key(app[c].operationHistory[j]) = Key(rooms[r].state.operations[i]) =>
          app[c].operationHistory[j] = rooms[r].state.operations[i]

\* C4: two strokes that are in the log of a room stand, in the history of
\* every member that holds both, in the order they have in the log
C4_ReceiptOrder ==
  \A r \in DOMAIN rooms : \A c \in Members(r) :
    LET ops == rooms[r].state.operations
        h == app[c].operationHistory
    IN \A i, j \in DOMAIN ops : \A p, q \in DOMAIN h :
         (i < j /\ Key(h[p]) = Key(ops[i]) /\ Key(h[q]) = Key(ops[j])) => p < q

(***************************************************************************)
(* Properties of the life of a room (SpecTimed)                            *)
(***************************************************************************)
\* the request handled, or the timer fired, by the step
Req == last'[1]

\* the minutes room r has been empty: removeUser starts a timer of
\* cleanupDelay minutes each time it empties a room, so what is left on the
\* timer started last for r tells when r was last emptied
EmptyFor(r) ==
  LET S == {i \in DOMAIN timers : timers[i].roomId = r}
  IN IF S = {} THEN cleanupDelay
     ELSE cleanupDelay - timers[CHOOSE i \in S : \A j \in S : j <= i].left

\* every connection that joined room r, and is not out of room.users for
\* having disconnected, has disconnected
AllGone(r) ==
  \A i \in DOMAIN rooms[r].users : status[rooms[r].users[i].id] = "down"

\* C11: a room leaves the registry only when it is empty and has been empty,
\* with no join in between, for a full cleanupDelay; a room that was joined
\* again and emptied again is not removed before cleanupDelay minutes have
\* gone by since it was last emptied
C11_Step ==
  \A r \in DOMAIN rooms :
    r \notin DOMAIN rooms' =>
      /\ Len(rooms[r].users) = 0
      /\ EmptyFor(r) >= cleanupDelay

C11_FullWindow == [][C11_Step]_vars

\* C12: a clean-up timer that fires for a room whose room.users is not
\* empty, a connection having joined since the timer was started, removes
\* nothing: the room is still there with the same users, operations and
\* currentIndex
C12_Step ==
  (last' # None /\ Req.kind = "timer") =>
    \A r \in DOMAIN rooms :
      (Req.room = Some(r) /\ Len(rooms[r].users) > 0) =>
        /\ r \in DOMAIN rooms'
        /\ rooms'[r].users = rooms[r].users
        /\ rooms'[r].state = rooms[r].state

C12_RejoinedSurvives == [][C12_Step]_vars

\* the timer of a room fired while a connection that joined after the room
\* was emptied is in it, and the room holds operations, one of them undone
C12_Witness ==
  /\ last # None
  /\ last[1].kind = "timer"
  /\ last[1].room[1] \in DOMAIN rooms
  /\ LET room == rooms[last[1].room[1]]
     IN /\ \E i \in DOMAIN room.users : status[room.users[i].id] = "up"
        /\ \E c \in Conns : status[c] = "down"
        /\ Len(room.state.operations) > 0
        /\ room.state.currentIndex < Len(room.state.operations) - 1

\* C13: when every connection that joined a room has disconnected and a
\* full cleanupDelay has gone by with no join, the room is not in the
\* registry; a room created for an id that is not in the registry has an
\* empty log and, before the joiner is added, no users
C13_Step ==
  /\ \A r \in DOMAIN rooms :
       ~(AllGone(r) /\ quiet >= cleanupDelay /\ timers = <<>>)
  /\ \A r \in DOMAIN rooms' :
       r \notin DOMAIN rooms =>
         /\ rooms'[r].state = NewDrawingState
         /\ Len(rooms'[r].users) = 1

C13_Reclaimed == [][C13_Step]_vars

\* C14: when every connection that joined a room has disconnected, the
\* canvas-state sent to a connection that joins the room next holds no
\* operations
C14_Step ==
  (last' # None /\ Req.kind = "join-room") =>
    \A r \in DOMAIN rooms :
      (Req.room = Some(r) /\ AllGone(r)) =>
        \A i \in DOMAIN s2c'[Req.conn] :
          s2c'[Req.conn][i].ev = "canvas-state" =>
            s2c'[Req.conn][i].state.operations = <<>>

C14_DrawingsLost == [][C14_Step]_vars

(***************************************************************************)
(* Properties of what the handlers send and change (SpecServer)            *)
(***************************************************************************)
\* the events of name ev among the events msgs
Events(msgs, ev) == SelectSeq(msgs, LAMBDA m : m.ev = ev)

\* the ids of a sequence of users
Ids(users) == [i \in DOMAIN users |-> users[i].id]

\* C15: a join sends the joiner, and nobody else, the state the room has
\* at that moment as {operations = log[0..currentIndex], currentIndex}, the
\* user made for it and the list of the users of the room in the order they
\* joined, the joiner in it; it leaves the log and the cursor of every room
\* as they are
C15_Step ==
  (last' # None /\ Req.kind = "join-room") =>
    LET c == Req.conn
        r == Req.room[1]
        before == IF r \in DOMAIN rooms THEN rooms[r].state ELSE NewDrawingState
        was == IF r \in DOMAIN rooms THEN Ids(rooms[r].users) ELSE <<>>
        now == rooms'[r].users
    IN /\ rooms'[r].state = before
       /\ \A q \in DOMAIN rooms \ {r} :
            q \in DOMAIN rooms' /\ rooms'[q].state = rooms[q].state
       /\ Ids(now) = IF \E i \in DOMAIN was : was[i] = c THEN was
                     ELSE Append(was, c)
       /\ Events(s2c'[c], "canvas-state") =
            <<[ev |-> "canvas-state",
               state |-> [operations |->
                            SubSeq(before.operations, 1, before.currentIndex + 1),
                          currentIndex |-> before.currentIndex]]>>
       /\ Len(Events(s2c'[c], "user-joined")) = 1
       /\ Events(s2c'[c], "user-joined")[1].user.id = c
       /\ \E i \in DOMAIN now : now[i] = Events(s2c'[c], "user-joined")[1].user
       /\ Events(s2c'[c], "users-list") = <<[ev |-> "users-list", users |-> now]>>
       /\ \A x \in Conns \ {c} :
            \A i \in DOMAIN s2c'[x] :
              s2c'[x][i].ev \notin {"canvas-state", "user-joined", "users-list"}

C15_JoinSnapshot == [][C15_Step]_vars

\* a second socket has just joined a room whose log holds an undone
\* operation, and was sent the active operations only
C15_Witness ==
  /\ last # None
  /\ last[1].kind = "join-room"
  /\ LET room == rooms[last[1].room[1]]
         sent == Events(s2c[last[1].conn], "canvas-state")[1].state
     IN /\ Len(room.users) = 2
        /\ room.users[2].id = last[1].conn
        /\ Len(sent.operations) > 0
        /\ Len(sent.operations) < Len(room.state.operations)

\* C16: an undo or a redo that returns an operation, and a clear, is sent
\* in the step that applies it, so in the order of application, to every
\* member of the room, the sender of the request too, once each
C16_Step ==
  (/\ last' # None
   /\ Req.kind \in {"undo", "redo", "clear"}
   /\ Req.room # None
   /\ Req.kind = "clear" \/ Req.ret # None) =>
    \A c \in Members(Req.room[1]) :
      s2c'[c] = <<IF Req.kind = "clear"
                  THEN [ev |-> "clear-canvas", clearedBy |-> Req.conn]
                  ELSE [ev |-> Req.kind, operation |-> Req.ret[1],
                        requestedBy |-> Req.conn]>>

C16_BroadcastToAll == [][C16_Step]_vars

\* a redo asked by one of the two members of a room has just been sent to
\* both of them
C16_Witness ==
  /\ last # None
  /\ last[1].kind = "redo"
  /\ last[1].ret # None
  /\ Members(last[1].room[1]) = Conns
  /\ \A c \in Conns : Len(s2c[c]) = 1 /\ s2c[c][1].ev = "redo"

\* C17: for a stroke (stroke-complete or draw) of a socket that is in a
\* room, the server appends one operation to the log of that room and sends
\* the operation appended to every other member of the room and to nobody
\* else: not to the author, not to a socket that is not in the room
C17_Step ==
  (last' # None /\ Req.kind \in {"stroke", "draw"} /\ Req.room # None) =>
    LET c == Req.conn
        r == Req.room[1]
        ops == rooms'[r].state.operations
        ev == IF Req.kind = "stroke" THEN "stroke-complete" ELSE "draw"
    IN /\ Req.ret # None
       /\ Len(ops) > 0 /\ ops[Len(ops)] = Req.ret[1]
       /\ Req.ret[1].userId = c
       /\ \A i \in DOMAIN rooms[r].state.operations :
            rooms[r].state.operations[i].id # Req.ret[1].id
       /\ \A q \in DOMAIN rooms \ {r} : rooms'[q] = rooms[q]
       /\ \A x \in Members(r) \ {c} :
            s2c'[x] = <<[ev |-> ev, operation |-> Req.ret[1]]>>
       /\ \A x \in Conns : (x = c \/ x \notin Members(r)) => s2c'[x] = <<>>

C17_StrokeToOthers == [][C17_Step]_vars

\* C18: a draw, stroke-complete, draw-path, cursor-move, undo, redo or
\* clear-canvas of a socket that resolves to no room, and the disconnect of
\* a socket that has no room, change nothing in the registry, the users,
\* the logs and the cursors, start no timer and emit nothing
C18_Step ==
  (/\ last' # None
   /\ Req.kind \in {"draw", "stroke", "draw-path", "cursor-move", "undo",
                     "redo", "clear", "disconnect"}
   /\ getRoomBySocketId(rooms, userRooms, Req.conn) = None) =>
    /\ UNCHANGED <<rooms, userRooms, timers, clock>>
    /\ s2c' = NoOut

C18_NoRoomNoOp == [][C18_Step]_vars

\* a socket that joined no room has just asked to clear the canvas while
\* the other socket is in a room with operations in its log
C18_Witness ==
  /\ last # None
  /\ last[1].kind = "clear"
  /\ last[1].room = None
  /\ \E r \in DOMAIN rooms :
       /\ Len(rooms[r].state.operations) > 0
       /\ Members(r) # {}

\* C19: handling a draw-path or a cursor-move leaves the operations and
\* the currentIndex of every room as they are, whatever the state and the
\* sender
C19_Step ==
  (last' # None /\ Req.kind \in {"draw-path", "cursor-move"}) =>
    /\ DOMAIN rooms' = DOMAIN rooms
    /\ \A r \in DOMAIN rooms : rooms'[r].state = rooms[r].state

C19_TransientNotLogged == [][C19_Step]_vars

\* a draw-path of a member of a room with operations in its log has just
\* been relayed to the other member
C19_Witness ==
  /\ last # None
  /\ last[1].kind = "draw-path"
  /\ last[1].room # None
  /\ Len(rooms[last[1].room[1]].state.operations) > 0
  /\ \E c \in Conns \ {last[1].conn} :
       Len(s2c[c]) = 1 /\ s2c[c][1].ev = "draw-path"

\* C20: a disconnect takes the socket out of room.users and userRooms and
\* changes nothing else: while a user remains in the room, its operations,
\* those of the leaving socket too, and its currentIndex are as before
C20_Step ==
  (last' # None /\ Req.kind = "disconnect" /\ Req.room # None) =>
    LET c == Req.conn
        r == Req.room[1]
    IN Len(rooms'[r].users) > 0 =>
         /\ rooms'[r].state = rooms[r].state
         /\ rooms' = [rooms EXCEPT ![r].users =
                        SelectSeq(rooms[r].users, LAMBDA u : u.id # c)]
         /\ DOMAIN userRooms' = DOMAIN userRooms \ {c}
         /\ \A x \in DOMAIN userRooms' : userRooms'[x] = userRooms[x]

C20_LeaveKeepsLog == [][C20_Step]_vars

\* a socket has just disconnected from a room where another user remains
\* and whose log holds an operation of the socket that left
C20_Witness ==
  /\ last # None
  /\ last[1].kind = "disconnect"
  /\ last[1].room # None
  /\ LET room == rooms[last[1].room[1]]
     IN /\ Len(room.users) > 0
        /\ \E i \in DOMAIN room.state.operations :
             room.state.operations[i].userId = last[1].conn

(***************************************************************************)
(* Properties of the registry (SpecServer, SpecRooms)                      *)
(***************************************************************************)
\* C21: a request handled for a socket that resolves to room r (for a
\* join-room, the room joined) and a clean-up timer that fires for r leave
\* the log, the cursor and the users of every other room as they are
C21_Step ==
  /\ (last' # None /\ Req.room # None) =>
       \A q \in DOMAIN rooms \ {Req.room[1]} :
         q \in DOMAIN rooms' /\ rooms'[q] = rooms[q]
  /\ (timers # <<>> /\ Len(timers') < Len(timers)) =>
       \A q \in DOMAIN rooms \ {Head(timers).roomId} :
         q \in DOMAIN rooms' /\ rooms'[q] = rooms[q]

C21_RoomsIndependent == [][C21_Step]_vars

\* a clear-canvas was just handled in one room while the other room has
\* users and operations in its log
C21_Witness ==
  /\ last # None
  /\ last[1].kind = "clear"
  /\ last[1].room # None
  /\ \E q \in DOMAIN rooms \ {last[1].room[1]} :
       /\ Len(rooms[q].users) > 0
       /\ Len(rooms[q].state.operations) > 0

\* C22: when 13 connections have joined a room one after the other, none
\* having left, the 13th has the color of the 1st and the first 12 have 12
\* different colors
C22_ColorCycle ==
  \A r \in DOMAIN rooms :
    LET users == rooms[r].users
        n == Len(users)
    IN Ids(users) = [i \in 1..n |-> SocketId(i)] =>
         /\ \A i, j \in 1..n :
              (i < j /\ j <= 12) => users[i].color # users[j].color
         /\ n >= 13 => users[13].color = users[1].color

\* thirteen connections have joined the room and none has left
C22_Witness ==
  /\ "r1" \in DOMAIN rooms
  /\ Len(rooms["r1"].users) >= 13
  /\ Ids(rooms["r1"].users) =
       [i \in 1..Len(rooms["r1"].users) |-> SocketId(i)]
  /\ rooms["r1"].users[13].color = userColors[1]

\* C23: whatever joins and leaves a room has seen, the k-th connection to
\* join it has entry (k-1) mod 12 of the palette (in SpecRooms the k-th
\* connection joins when the clock is k, which is its joinedAt)
C23_JoinSequence ==
  \A r \in DOMAIN rooms :
    \A i \in DOMAIN rooms[r].users :
      LET k == rooms[r].users[i].joinedAt
      IN rooms[r].users[i].color = userColors[((k - 1) % 12) + 1]

\* C24: once it has handled everything sent to it, a socket that joined
\* one room and only follows it, with no stroke of its own in its history
\* or in the log, holds the active slice of the room: the same strokes in
\* the same order, also when it joined while undone operations could be
\* redone
C24_LateJoiner ==
  Quiescent =>
    \A r \in DOMAIN rooms : \A c \in Members(r) :
      (/\ sioRooms[c] = {r}
       /\ \A j \in DOMAIN app[c].operationHistory :
            "id" \in DOMAIN app[c].operationHistory[j]
       /\ \A i \in DOMAIN rooms[r].state.operations :
            rooms[r].state.operations[i].userId # c) =>
        Keys(ClientActive(c)) = Keys(getActiveOperations(rooms[r].state))

\* C25: once the disconnect of a socket is handled, whatever rooms it
\* joined before, the socket is in the users of no room, resolves to no room
\* and no user, and is in no list of users sent to a socket
C25_Left ==
  \A c \in Conns :
    status[c] = "down" =>
      /\ \A r \in DOMAIN rooms : ~UsersHas(rooms[r].users, c)
      /\ getRoomBySocketId(rooms, userRooms, c) = None
      /\ getUser(rooms, userRooms, c) = None
      /\ \A x \in Conns : \A i \in DOMAIN s2c[x] :
           "users" \in DOMAIN s2c[x][i] => ~UsersHas(s2c[x][i].users, c)

\* C26: a join into a room leaves the number of its users one greater than
\* the number it found, so that the next join into the room, with no leave
\* in between, finds one more and takes its color from another size
C26_Step ==
  (last' # None /\ Req.kind = "join-room") =>
    LET r == Req.room[1]
        found == IF r \in DOMAIN rooms THEN Len(rooms[r].users) ELSE 0
    IN Len(rooms'[r].users) = found + 1

C26_JoinsSerialized == [][C26_Step]_vars

\* C27: getOrCreateRoom of an id that is not in the registry sets a room
\* with no operations, currentIndex -1, no users and createdAt now; of an id
\* that is in it, and so every later join, it leaves the operations, the
\* cursor, the users and createdAt of the room as they are
C27_Step ==
  /\ \A r \in RoomIds :
       LET rs1 == getOrCreateRoom(rooms, r, clock)
       IN /\ r \in DOMAIN rs1
          /\ r \in DOMAIN rooms => rs1 = rooms
          /\ r \notin DOMAIN rooms =>
               /\ rs1[r] = [id |-> r,
                            state |-> [operations |-> <<>>, currentIndex |-> -1],
                            users |-> <<>>, createdAt |-> clock]
               /\ \A q \in DOMAIN rooms : rs1[q] = rooms[q]
          /\ getOrCreateRoom(rs1, r, clock + 1) = rs1
  /\ (last' # None /\ Req.kind = "join-room") =>
       LET r == Req.room[1]
       IN IF r \in DOMAIN rooms
          THEN /\ rooms'[r].state = rooms[r].state
               /\ rooms'[r].createdAt = rooms[r].createdAt
               /\ Len(rooms'[r].users) >= Len(rooms[r].users)
               /\ \A i \in DOMAIN rooms[r].users :
                    rooms[r].users[i].id # Req.conn =>
                      rooms'[r].users[i] = rooms[r].users[i]
          ELSE /\ rooms'[r].state = [operations |-> <<>>, currentIndex |-> -1]
               /\ rooms'[r].createdAt = clock
               /\ Ids(rooms'[r].users) = <<Req.conn>>

C27_GetOrCreateIdempotent == [][C27_Step]_vars

\* a socket has just joined a room that another socket created before and
\* that has operations in its log
C27_Witness ==
  /\ last # None
  /\ last[1].kind = "join-room"
  /\ LET room == rooms[last[1].room[1]]
     IN /\ Len(room.users) = 2
        /\ room.users[2].id = last[1].conn
        /\ room.createdAt < room.users[2].joinedAt
        /\ Len(room.state.operations) > 0

\* C28: after a clear-canvas is handled, the history of the room ends with
\* an entry that records the clear, after the operations that were there
C28_Step ==
  (last' # None /\ Req.kind = "clear" /\ Req.room # None) =>
    LET was == rooms[Req.room[1]].state.operations
        ops == rooms'[Req.room[1]].state.operations
    IN /\ Len(ops) > 0
       /\ ops[Len(ops)].type = "clear"
       /\ \A i \in 1..(Len(ops) - 1) : \E j \in DOMAIN was : was[j] = ops[i]

C28_ClearStored == [][C28_Step]_vars

\* C29: a socket that userRooms maps to a room id is in the users of that
\* room, which is in the registry; so a handler that finds a room for a
\* socket finds a user for it
C29_ReverseIndex ==
  /\ \A c \in DOMAIN userRooms :
       /\ userRooms[c] \in DOMAIN rooms
       /\ UsersHas(rooms[userRooms[c]].users, c)
  /\ \A c \in Conns :
       getRoomBySocketId(rooms, userRooms, c) # None =>
         getUser(rooms, userRooms, c) # None

\* a socket is in a room it joined after the room was created, the other
\* socket has disconnected and every timer has fired
C29_Witness ==
  /\ timers = <<>>
  /\ \E c \in DOMAIN userRooms, d \in Conns :
       /\ status[c] = "up"
       /\ status[d] = "down"
       /\ rooms[userRooms[c]].createdAt < getUser(rooms, userRooms, c)[1].joinedAt

\* C30: a socket is in the users of at most one room, the room userRooms
\* maps it to; a socket that joins a second room is no longer in the users
\* of the first
C30_OneRoom ==
  \A r \in DOMAIN rooms : \A i \in DOMAIN rooms[r].users :
    LET c == rooms[r].users[i].id
    IN c \in DOMAIN userRooms /\ userRooms[c] = r

\* C31: a stroke, undo, redo, clear, join or disconnect handled for a room
\* sends its broadcasts only to sockets that userRooms maps to that room: a
\* socket that joined another room afterwards gets nothing of it
C31_Step ==
  (/\ last' # None
   /\ Req.kind \in {"stroke", "undo", "redo", "clear", "join-room",
                    "disconnect"}
   /\ Req.room # None) =>
    \A x \in Conns \ {Req.conn} :
      s2c'[x] # <<>> =>
        x \in DOMAIN userRooms' /\ userRooms'[x] = Req.room[1]

C31_BroadcastScope == [][C31_Step]_vars

\* C32: after any joins and leaves, two users present together in a room of
\* at most 12 users have different colors
C32_DistinctColors ==
  \A r \in DOMAIN rooms :
    LET users == rooms[r].users
    IN Len(users) <= 12 =>
         \A i, j \in DOMAIN users : i # j => users[i].color # users[j].color

\* the sum of the users counts of the rooms of a getStats result
RECURSIVE SumUsers(_, _)
SumUsers(statsRooms, S) ==
  IF S = {} THEN 0
  ELSE LET r == CHOOSE x \in S : TRUE
       IN statsRooms[r].users + SumUsers(statsRooms, S \ {r})

\* C33: in every reachable state the total number of users getStats reports
\* is the sum of the users counts it reports for the rooms, it reports one
\* entry for each room, and the operations count of each entry is the length
\* of the log of that room
C33_StatsConsistent ==
  LET stats == getStats(rooms, userRooms)
  IN /\ stats.totalUsers = SumUsers(stats.rooms, DOMAIN stats.rooms)
     /\ stats.totalRooms = Cardinality(DOMAIN rooms)
     /\ \A r \in DOMAIN rooms :
          /\ stats.rooms[r].id = r
          /\ stats.rooms[r].operations = Len(rooms[r].state.operations)

====
